---- MODULE Spec2Model ----
(***************************************************************************)
(* Model of artifact_reporter.cpp: the artifact reporting node.            *)
(*                                                                         *)
(* Two execution contexts share the globals artifact_to_report and         *)
(* have_an_artifact_to_report:                                             *)
(*   - the ros::spin() thread, which runs the timer callback               *)
(*     ReportArtifacts and the synchronised detection callback             *)
(*     ProcessDetection one after the other, never interleaved;            *)
(*   - the communication client's thread, which runs BaseStationCallback.  *)
(* The source takes no lock, so the statements of BaseStationCallback      *)
(* interleave with the statements of the spin thread's callbacks.  Each    *)
(* read or write of a global is one step of the model.                     *)
(*                                                                         *)
(* Coordinates are integers in units of 0.5.                               *)
(***************************************************************************)
EXTENDS Integers, Sequences, FiniteSets, TLC

\* Largest number of bounding boxes in one BoundingBoxes message.
MaxBoxes == 2

\* The if-chain of ProcessDetection: label compared and type stored, in order.
NumBranches == 5

IfLabel ==
  <<"Backpack", "Survivor", "Cell Phone", "Fire Extinguisher", "Drill">>

\* Variant: the bodies of the second and the third if store each other's type.
IfType_swapped ==
  <<"TYPE_BACKPACK", "TYPE_PHONE", "TYPE_RESCUE_RANDY", "TYPE_EXTINGUISHER",
    "TYPE_DRILL">>

IfType ==
  <<"TYPE_BACKPACK", "TYPE_RESCUE_RANDY", "TYPE_PHONE", "TYPE_EXTINGUISHER",
    "TYPE_DRILL">>

RecognizedLabels == {IfLabel[i] : i \in 1..NumBranches}

\* Labels the detector may put in box.Class: the five of the chain, one of
\* another class, and one that differs from a chain label only in case.
Labels == RecognizedLabels \cup {"Helmet", "drill"}

\* Translation from the camera frame to artifact_origin_frame held by tf.
TfOffset == <<6, 12, 0>>

\* tf_buffer.transform(centroid, artifact_origin_frame, 1s) when the
\* transform is available.
TransformPose(p) == <<p[1] + TfOffset[1], p[2] + TfOffset[2], p[3] + TfOffset[3]>>

\* The static-initialised globals (lines 37-38): type is the enumerator of
\* value 0, location is the zero point.
ZeroArtifact == [type |-> "TYPE_0", x |-> 0, y |-> 0, z |-> 0]

\* Nothing has been handed to SendTo yet.
NoMsg == [artifact |-> ZeroArtifact, serialized |-> FALSE, none |-> TRUE]

\* box.Class before the first loop iteration.
NoLabel == "none"

\* No recognized box has been processed yet.
NoBox == [Class |-> NoLabel, pose |-> <<0, 0, 0>>]

----------------------------------------------------------------------------
\* sensor_msgs::PointCloud2 and CropPointCloud
\*
\* A cloud is [width, height, point_step, row_step, data]; data is the byte
\* buffer, a sequence whose element i + 1 is the byte at offset i.

\* Largest width and height of a cloud handed to CropPointCloud.
MaxWidth == 2

MaxHeight == 2

\* Largest point_step (bytes per point) and largest row padding in bytes.
MaxPointStep == 2

MaxPad == 1

\* What a read past the end of original_pc->data may return.
GarbageBytes == {-1, -2}

\* Line 277, original_pc->data[i]: the byte at offset i, or, past the end of
\* the vector (undefined behaviour), the byte g found there.
ReadByte(data, i, g) == IF i < Len(data) THEN data[i + 1] ELSE g

\* Lines 269 and 271: the loop variable is a size_t initialised from a signed
\* bound and compared with a non-negative signed bound.  A negative lower
\* bound converts to a value above every non-negative upper bound, so the
\* loop body never runs; otherwise the loop starts at lo.
LoopEntered(lo, hi) == lo >= 0 /\ lo <= hi

RECURSIVE CopyPoint(_, _, _, _)
\* Lines 275-278: push_back the bytes start..end-1 of one point.
CopyPoint(pc, i, end, g) ==
  IF i < end
  THEN <<ReadByte(pc.data, i, g)>> \o CopyPoint(pc, i + 1, end, g)
  ELSE <<>>

\* Variant: the start of a point is computed from width * point_step, not
\* from row_step.
PointStart_noPadding(pc, r, c) ==
  (r * pc.width * pc.point_step) + (c * pc.point_step)

\* Line 273.
PointStart(pc, r, c) == (r * pc.row_step) + (c * pc.point_step)

RECURSIVE CopyRow(_, _, _, _, _)
\* Lines 271-279 from column c on.
CopyRow(pc, b, r, c, g) ==
  IF c <= b.xmax
  THEN CopyPoint(pc, PointStart(pc, r, c),
                 PointStart(pc, r, c) + pc.point_step, g)
         \o CopyRow(pc, b, r, c + 1, g)
  ELSE <<>>

RECURSIVE CopyRows(_, _, _, _)
\* Lines 269-280 from row r on.
CopyRows(pc, b, r, g) ==
  IF r <= b.ymax
  THEN (IF LoopEntered(b.xmin, b.xmax)
        THEN CopyRow(pc, b, r, b.xmin, g) ELSE <<>>)
         \o CopyRows(pc, b, r + 1, g)
  ELSE <<>>

\* Lines 258-282: the cloud CropPointCloud returns when reads past the end of
\* the buffer, if any, return g.
CropPointCloud(pc, b, g) ==
  [width |-> b.xmax - b.xmin + 1,
   height |-> b.ymax - b.ymin + 1,
   point_step |-> pc.point_step,
   row_step |-> (b.xmax - b.xmin + 1) * pc.point_step,
   data |-> IF LoopEntered(b.ymin, b.ymax)
            THEN CopyRows(pc, b, b.ymin, g) ELSE <<>>]

\* Line 277 never indexes past the end of original_pc->data: the loops do
\* not run, or the last byte read lies inside the buffer.
ReadsInsideBuffer(pc, b) ==
  \/ ~LoopEntered(b.ymin, b.ymax)
  \/ ~LoopEntered(b.xmin, b.xmax)
  \/ PointStart(pc, b.ymax, b.xmax) + pc.point_step <= Len(pc.data)

\* The bounding box lies inside the cloud.
InRange(pc, b) ==
  /\ 0 <= b.xmin /\ b.xmin <= b.xmax /\ b.xmax < pc.width
  /\ 0 <= b.ymin /\ b.ymin <= b.ymax /\ b.ymax < pc.height

\* Clouds whose byte at offset i is i, so that every byte tells where it
\* came from.
TaggedClouds ==
  {[width |-> w, height |-> h, point_step |-> ps,
    row_step |-> (w * ps) + pad,
    data |-> [i \in 1..(h * ((w * ps) + pad)) |-> i - 1]] :
     w \in 1..MaxWidth, h \in 1..MaxHeight, ps \in 1..MaxPointStep,
     pad \in 0..MaxPad}

\* darknet_ros_msgs::BoundingBox bounds with xmin <= xmax, ymin <= ymax and
\* non-negative upper bounds, in and out of the range of the clouds.
BoundingBoxes ==
  {b \in [xmin : -1..MaxWidth, xmax : 0..MaxWidth,
          ymin : -1..MaxHeight, ymax : 0..MaxHeight] :
     b.xmin <= b.xmax /\ b.ymin <= b.ymax}

\* No cloud and no bounding box.
NoCloud ==
  [width |-> 0, height |-> 0, point_step |-> 0, row_step |-> 0, data |-> <<>>]

NoBoundingBox == [xmin |-> 0, xmax |-> 0, ymin |-> 0, ymax |-> 0]

----------------------------------------------------------------------------
\* GetCentroid
\*
\* In a cloud handed to GetCentroid one element of data stands for one float
\* field; a point has the fields x, y, z at offsets 0, 1, 2.  A float is an
\* integer, or one of the two values below.

\* The float value infinity.
Inf == 1000000

\* The float value NaN.
NaN == 2000000

\* Largest number of points in a cloud handed to GetCentroid alone.
MaxPoints == 2

RECURSIVE Factorial(_)
Factorial(n) == IF n <= 1 THEN 1 ELSE n * Factorial(n - 1)

\* Finite coordinates are multiples of this unit, so that the quotient of a
\* sum of up to MaxPoints coordinates by their number is exact.
CoordUnit == Factorial(MaxPoints)

\* Float addition and division by a count.
FloatAdd(a, b) == IF a = NaN \/ b = NaN THEN NaN ELSE a + b

FloatDiv(a, n) == IF a = NaN THEN NaN ELSE a \div n

\* Lines 288-291, pcl_conversions::toPCL and pcl::fromPCLPointCloud2: the
\* k-th point (k from 0) of the cloud; a field past the end of the buffer
\* (undefined behaviour) reads as g.
DecodePoint(pc, k, g) ==
  LET base == ((k \div pc.width) * pc.row_step)
                + ((k % pc.width) * pc.point_step)
  IN  <<ReadByte(pc.data, base, g), ReadByte(pc.data, base + 1, g),
        ReadByte(pc.data, base + 2, g)>>

\* Line 297: the point is skipped.
Skipped(p) == p[1] = Inf \/ p[2] = Inf \/ p[3] = Inf

RECURSIVE Accumulate(_, _, _, _)
\* Lines 294-302: the pcl::CentroidPoint after the points k..width*height-1
\* have been visited, starting from the accumulator acc.
Accumulate(pc, k, g, acc) ==
  IF k >= pc.width * pc.height
  THEN acc
  ELSE LET p == DecodePoint(pc, k, g)
       IN  IF Skipped(p)
           THEN Accumulate(pc, k + 1, g, acc)
           ELSE Accumulate(pc, k + 1, g,
                  [sum |-> <<FloatAdd(acc.sum[1], p[1]),
                             FloatAdd(acc.sum[2], p[2]),
                             FloatAdd(acc.sum[3], p[3])>>,
                   num_points |-> acc.num_points + 1])

\* Lines 305-315: centroid.get(location) on a default-constructed
\* pcl::PointXYZ (0, 0, 0), which get leaves untouched when no point was
\* added, copied to p.pose.position.
GetCentroid(pc, g) ==
  LET acc == Accumulate(pc, 0, g, [sum |-> <<0, 0, 0>>, num_points |-> 0])
  IN  IF acc.num_points = 0
      THEN <<0, 0, 0>>
      ELSE <<FloatDiv(acc.sum[1], acc.num_points),
             FloatDiv(acc.sum[2], acc.num_points),
             FloatDiv(acc.sum[3], acc.num_points)>>

\* GetCentroid never reads past the end of the buffer of pc.
DecodesInsideBuffer(pc) == pc.height * pc.row_step <= Len(pc.data)

\* The values of a float field: two finite values, infinity and NaN.
FloatValues == {CoordUnit, 2 * CoordUnit, Inf, NaN}

\* The points of the clouds handed to GetCentroid alone: every coordinate is
\* the unit, except at most one, which takes any float value.
CloudPoints ==
  {p \in [1..3 -> FloatValues] :
     Cardinality({i \in 1..3 : p[i] # CoordUnit}) <= 1}

\* The data buffer of the points ps: their fields x, y, z one after another.
PointData(ps) ==
  [i \in 1..(3 * Len(ps)) |-> ps[((i - 1) \div 3) + 1][((i - 1) % 3) + 1]]

\* Unorganised clouds of 1..MaxPoints points of three float fields.
PointClouds ==
  UNION {{[width |-> n, height |-> 1, point_step |-> 3, row_step |-> 3 * n,
           data |-> PointData(ps)] : ps \in [1..n -> CloudPoints]} :
         n \in 1..MaxPoints}

----------------------------------------------------------------------------
\* The inputs of ProcessDetection

\* The cloud of a frame: 2 x 2 points of three float fields, no row padding.
\* Column 0 holds the points (4, -2, 1) and (1, 1, 2), column 1 holds points
\* without depth (x infinite).
DetectionCloud ==
  [width |-> 2, height |-> 2, point_step |-> 3, row_step |-> 6,
   data |-> <<4, -2, 1,   Inf, 0, 0,
              1, 1, 2,    Inf, 0, 0>>]

\* Bounds of the boxes of a frame: row 0, row 1 and column 1 of the cloud,
\* a box that exceeds the width (its reads stay inside the buffer), a box
\* that exceeds the height (its reads leave the buffer) and a box with a
\* negative xmin.
DetectionBounds ==
  {[xmin |-> 0, xmax |-> 1, ymin |-> 0, ymax |-> 0],
   [xmin |-> 0, xmax |-> 1, ymin |-> 1, ymax |-> 1],
   [xmin |-> 1, xmax |-> 1, ymin |-> 0, ymax |-> 1],
   [xmin |-> 1, xmax |-> 2, ymin |-> 0, ymax |-> 0],
   [xmin |-> 1, xmax |-> 1, ymin |-> 1, ymax |-> 2],
   [xmin |-> -1, xmax |-> 0, ymin |-> 0, ymax |-> 0]}

\* What a float field read past the end of a buffer may hold.
GarbageFloats == {Inf, 0}

\* Lines 162-163: crop the frame's cloud to the box and take the centroid;
\* reads past the end of a buffer, if any, return g.
BoxCentroid(b, g) == GetCentroid(CropPointCloud(DetectionCloud, b, g), g)

\* Neither CropPointCloud nor GetCentroid reads past the end of a buffer.
PipelineDefined(b) ==
  /\ ReadsInsideBuffer(DetectionCloud, b)
  /\ DecodesInsideBuffer(CropPointCloud(DetectionCloud, b, 0))

\* Centroids GetCentroid may return for a box (camera frame).
Centroids == {BoxCentroid(b, g) : b \in DetectionBounds, g \in GarbageFloats}

\* Labels of the boxes of a frame while the node runs with its timer and its
\* base station: the labels of the first and the last if of the chain and
\* the two labels outside the chain.
FrameLabels == {"Backpack", "Drill", "Helmet", "drill"}

\* A bounding box as ProcessDetection sees it: the label, the pixel bounds
\* and whether tf can transform to the artifact origin.
Boxes == [Class : FrameLabels, bounds : DetectionBounds, tf_ok : BOOLEAN]

\* History of the box: its bounds lie outside the cloud ("out_of_range"), or
\* inside with no point of three non-infinite coordinates ("empty"), or
\* inside with such a point ("valid").
BoxKind(b) ==
  IF ~InRange(DetectionCloud, b) THEN "out_of_range"
  ELSE IF \A r \in b.ymin..b.ymax : \A c \in b.xmin..b.xmax :
            Skipped(DecodePoint(DetectionCloud,
                                (r * DetectionCloud.width) + c, 0))
       THEN "empty"
       ELSE "valid"

\* No box has been processed yet, nothing has been handed to SendTo.
NoHistory == [box_kind |-> "none", fired |-> 0, sent_types |-> {}]

VARIABLES
  artifact_to_report,          \* global Artifact {type, location.x/.y/.z}
  have_an_artifact_to_report,  \* global bool
  spin_pc,                     \* position of the ros::spin() thread
  comms_pc,                    \* position of the comms callback thread
  boxes_left,                  \* boxes of bb_msg the for loop has not reached
  Class,                       \* box.Class of the box being processed
  scoring_pose,                \* local scoring_pose.pose.position
  if_idx,                      \* which if of the chain is being evaluated
  parsed,                      \* BaseStationCallback: res.ParseFromString(data)
  sent,                        \* last message handed to commsClient.SendTo
  tick_saw,                    \* flag value the last ReportArtifacts read
  tick_sends,                  \* SendTo calls of the last ReportArtifacts
  last_qualifying,             \* history: last recognized box that got its
                               \* transform (label and scoring pose)
  acked,                       \* history: well-formed ack handled, no
                               \* detection stored since
  hist,                        \* history: kind of the current box, branches
                               \* it entered, artifact types handed to SendTo
  original_pc,                 \* CropPointCloud / GetCentroid: argument cloud
  bb,                          \* CropPointCloud: argument bounding box
  modified_pc,                 \* CropPointCloud: returned cloud
  centroid,                    \* GetCentroid: returned position
  fn_pc                        \* position of the function under study

vars == <<artifact_to_report, have_an_artifact_to_report, spin_pc, comms_pc,
          boxes_left, Class, scoring_pose, if_idx, parsed, sent, tick_saw,
          tick_sends, last_qualifying, acked, hist, original_pc, bb, modified_pc,
          centroid, fn_pc>>

\* The variables of the node (the callbacks and their history).
node_vars == <<artifact_to_report, have_an_artifact_to_report, spin_pc,
               comms_pc, boxes_left, Class, scoring_pose, if_idx, parsed,
               sent, tick_saw, tick_sends, last_qualifying, acked, hist>>

\* The variables of a single call of CropPointCloud or GetCentroid.
call_vars == <<original_pc, bb, modified_pc, centroid, fn_pc>>

reporting_state == <<artifact_to_report, have_an_artifact_to_report>>

detection_locals == <<boxes_left, Class, scoring_pose, if_idx>>

tick_history == <<sent, tick_saw, tick_sends>>

\* Variant: the flag is set at startup.
NodeInit_pendingAtStart ==
  /\ artifact_to_report = ZeroArtifact
  /\ have_an_artifact_to_report = TRUE
  /\ spin_pc = "idle"
  /\ comms_pc = "idle"
  /\ boxes_left = 0
  /\ Class = NoLabel
  /\ scoring_pose = <<0, 0, 0>>
  /\ if_idx = 1
  /\ parsed = TRUE
  /\ sent = NoMsg
  /\ tick_saw = FALSE
  /\ tick_sends = 0
  /\ last_qualifying = NoBox
  /\ acked = FALSE
  /\ hist = NoHistory

\* The node right after main has set up its callbacks.
NodeInit ==
  /\ artifact_to_report = ZeroArtifact
  /\ have_an_artifact_to_report = FALSE
  /\ spin_pc = "idle"
  /\ comms_pc = "idle"
  /\ boxes_left = 0
  /\ Class = NoLabel
  /\ scoring_pose = <<0, 0, 0>>
  /\ if_idx = 1
  /\ parsed = TRUE
  /\ sent = NoMsg
  /\ tick_saw = FALSE
  /\ tick_sends = 0
  /\ last_qualifying = NoBox
  /\ acked = FALSE
  /\ hist = NoHistory

\* No single function call is under study.
CallOff ==
  /\ original_pc = NoCloud
  /\ bb = NoBoundingBox
  /\ modified_pc = NoCloud
  /\ centroid = <<0, 0, 0>>
  /\ fn_pc = "off"

Init == NodeInit /\ CallOff

----------------------------------------------------------------------------
\* BaseStationCallback (comms thread)

\* Lines 104-117: parse the data, log an error when parsing fails, read the
\* location out of res and log it.  Nothing returns early.
BaseStationCallback_Parse ==
  /\ spin_pc # "crashed"
  /\ comms_pc = "idle"
  /\ \E ok \in BOOLEAN : parsed' = ok
  /\ comms_pc' = "clear"
  /\ UNCHANGED <<reporting_state, spin_pc, detection_locals, tick_history,
                 last_qualifying, acked>>
  /\ UNCHANGED <<hist, call_vars>>

\* Variant: the flag is cleared only by a well-formed score message and is
\* otherwise left as it is.
AckFlag_keep(ok, flag) == flag

\* Variant: the flag is flipped instead of cleared.
AckFlag_toggle(ok, flag) == ~flag

\* Line 121: the value stored in have_an_artifact_to_report.
AckFlag(ok, flag) == FALSE

\* Line 121.
BaseStationCallback_Clear ==
  /\ spin_pc # "crashed"
  /\ comms_pc = "clear"
  /\ have_an_artifact_to_report' = AckFlag(parsed, have_an_artifact_to_report)
  /\ acked' = (parsed \/ acked)
  /\ comms_pc' = "idle"
  /\ UNCHANGED <<artifact_to_report, spin_pc, detection_locals, parsed,
                 tick_history, last_qualifying>>
  /\ UNCHANGED <<hist, call_vars>>

----------------------------------------------------------------------------
\* ReportArtifacts (spin thread, timer)

\* Variant: the guard of lines 126-129 is missing.
ReturnsEarly_never(flag) == FALSE

\* Lines 126-129: whether the callback returns before building a message.
ReturnsEarly(flag) == ~flag

\* Lines 126-129.
ReportArtifacts_Check ==
  /\ spin_pc = "idle"
  /\ tick_saw' = have_an_artifact_to_report
  /\ tick_sends' = 0
  /\ spin_pc' = IF ReturnsEarly(have_an_artifact_to_report)
                THEN "idle" ELSE "report_send"
  /\ UNCHANGED <<reporting_state, comms_pc, detection_locals, parsed, sent,
                 last_qualifying, acked>>
  /\ UNCHANGED <<hist, call_vars>>

\* Lines 131-140: the subt::msgs::Artifact filled from the global.
BuildArtifactMsg(a) == [type |-> a.type, x |-> a.x, y |-> a.y, z |-> a.z]

\* Variant: the flag is cleared optimistically once SendTo has been called.
ReportArtifacts_Send_clears ==
  /\ spin_pc = "report_send"
  /\ \E ok \in BOOLEAN :
       sent' = [artifact |-> BuildArtifactMsg(artifact_to_report),
                serialized |-> ok, none |-> FALSE]
  /\ tick_sends' = tick_sends + 1
  /\ hist' = [hist EXCEPT !.sent_types = @ \cup {artifact_to_report.type}]
  /\ have_an_artifact_to_report' = FALSE
  /\ spin_pc' = "idle"
  /\ UNCHANGED <<artifact_to_report, comms_pc, detection_locals, parsed,
                 tick_saw, last_qualifying, acked>>
  /\ UNCHANGED call_vars

\* Lines 131-150: build the message, serialize it (log on failure) and call
\* SendTo; the failure branch has no return.
ReportArtifacts_Send ==
  /\ spin_pc = "report_send"
  /\ \E ok \in BOOLEAN :
       sent' = [artifact |-> BuildArtifactMsg(artifact_to_report),
                serialized |-> ok, none |-> FALSE]
  /\ tick_sends' = tick_sends + 1
  /\ hist' = [hist EXCEPT !.sent_types = @ \cup {artifact_to_report.type}]
  /\ spin_pc' = "idle"
  /\ UNCHANGED <<reporting_state, comms_pc, detection_locals, parsed,
                 tick_saw, last_qualifying, acked>>
  /\ UNCHANGED call_vars

----------------------------------------------------------------------------
\* ProcessDetection (spin thread, synchronised cloud + boxes)

\* The callback is entered with a message of 0..MaxBoxes boxes.
ProcessDetection_Begin ==
  /\ spin_pc = "idle"
  /\ \E n \in 0..MaxBoxes : boxes_left' = n
  /\ spin_pc' = "pd_loop"
  /\ UNCHANGED <<reporting_state, comms_pc, Class, scoring_pose, if_idx,
                 parsed, tick_history, last_qualifying, acked>>
  /\ UNCHANGED <<hist, call_vars>>

\* Line 158: the range-for is exhausted, the callback returns.
ProcessDetection_End ==
  /\ spin_pc = "pd_loop"
  /\ boxes_left = 0
  /\ spin_pc' = "idle"
  /\ UNCHANGED <<reporting_state, comms_pc, detection_locals, parsed,
                 tick_history, last_qualifying, acked>>
  /\ UNCHANGED <<hist, call_vars>>

\* Lines 162-169 for a box whose centroid is c when tf has the transform:
\* the locals of the iteration and the history of the box.
BoxTransformed(box, c) ==
  /\ Class' = box.Class
  /\ scoring_pose' = TransformPose(c)
  /\ last_qualifying' =
       IF box.Class \in RecognizedLabels
       THEN [Class |-> box.Class, pose |-> TransformPose(c)]
       ELSE last_qualifying
  /\ hist' = [hist EXCEPT !.box_kind = BoxKind(box.bounds), !.fired = 0]
  /\ boxes_left' = boxes_left - 1
  /\ if_idx' = 1
  /\ spin_pc' = "if_test"
  /\ UNCHANGED <<reporting_state, comms_pc, parsed, tick_history, acked>>
  /\ UNCHANGED call_vars

\* Lines 158-169 for the next box when tf has the transform: crop, centroid,
\* transform.  The box is that iteration's element of the const message.
ProcessDetection_Box ==
  /\ spin_pc = "pd_loop"
  /\ boxes_left > 0
  /\ \E box \in Boxes :
       /\ box.tf_ok
       /\ PipelineDefined(box.bounds)
       /\ BoxTransformed(box, BoxCentroid(box.bounds, 0))

\* Lines 158-169 when the crop or the conversion of the cropped cloud reads
\* past the end of a buffer (undefined behaviour) and the read returns
\* whatever lies there.
ProcessDetection_BoxReadsPastEnd ==
  /\ spin_pc = "pd_loop"
  /\ boxes_left > 0
  /\ \E box \in Boxes, g \in GarbageFloats :
       /\ box.tf_ok
       /\ ~PipelineDefined(box.bounds)
       /\ BoxTransformed(box, BoxCentroid(box.bounds, g))

\* Lines 162-163 when the read past the end of a buffer faults: the process
\* ends.
ProcessDetection_BoxFaults ==
  /\ spin_pc = "pd_loop"
  /\ boxes_left > 0
  /\ \E box \in Boxes :
       /\ ~PipelineDefined(box.bounds)
       /\ Class' = box.Class
       /\ hist' = [hist EXCEPT !.box_kind = BoxKind(box.bounds), !.fired = 0]
  /\ boxes_left' = boxes_left - 1
  /\ spin_pc' = "crashed"
  /\ UNCHANGED <<reporting_state, comms_pc, scoring_pose, if_idx, parsed,
                 tick_history, last_qualifying, acked>>
  /\ UNCHANGED call_vars

\* Lines 168-169 when tf has no transform: tf_buffer.transform throws; no
\* handler exists in ProcessDetection, the callback queue or main, so the
\* exception leaves the for loop and terminates the process.
ProcessDetection_TransformThrows ==
  /\ spin_pc = "pd_loop"
  /\ boxes_left > 0
  /\ \E box \in Boxes :
       /\ ~box.tf_ok
       /\ Class' = box.Class
       /\ hist' = [hist EXCEPT !.box_kind = BoxKind(box.bounds), !.fired = 0]
  /\ boxes_left' = boxes_left - 1
  /\ spin_pc' = "crashed"
  /\ UNCHANGED <<reporting_state, comms_pc, scoring_pose, if_idx, parsed,
                 tick_history, last_qualifying, acked>>
  /\ UNCHANGED call_vars

\* Variant: a pending artifact is not overwritten.
BranchMatches_keepFirst(i, label) ==
  label = IfLabel[i] /\ ~have_an_artifact_to_report

\* Variant: the last comparison ignores case.
BranchMatches_nocase(i, label) ==
  label = IfLabel[i] \/ (i = NumBranches /\ label = "drill")

\* Lines 171, 187, 203, 219, 235: the condition of the i-th if.
BranchMatches(i, label) == label = IfLabel[i]

\* Control after the i-th if: the next if, or the next loop iteration.
AfterBranch(i) == IF i < NumBranches THEN "if_test" ELSE "pd_loop"

NextBranch(i) == IF i < NumBranches THEN i + 1 ELSE 1

\* Line 250: at the end of the loop body the iteration's scoring_pose goes
\* out of scope, and the history of the box ends with it.
PoseAfterBranch(i) == IF i < NumBranches THEN scoring_pose ELSE <<0, 0, 0>>

HistAfterBranch(i, h) ==
  IF i < NumBranches THEN h ELSE [h EXCEPT !.box_kind = "none", !.fired = 0]

\* Lines 171, 187, 203, 219, 235: evaluate the condition of one if.
ProcessDetection_IfTest ==
  /\ spin_pc = "if_test"
  /\ IF BranchMatches(if_idx, Class)
     THEN /\ spin_pc' = "w_type"
          /\ UNCHANGED if_idx
          /\ UNCHANGED <<scoring_pose, hist>>
     ELSE /\ spin_pc' = AfterBranch(if_idx)
          /\ if_idx' = NextBranch(if_idx)
          /\ scoring_pose' = PoseAfterBranch(if_idx)
          /\ hist' = HistAfterBranch(if_idx, hist)
  /\ UNCHANGED <<reporting_state, comms_pc, boxes_left, Class, parsed,
                 tick_history, last_qualifying, acked>>
  /\ UNCHANGED call_vars

\* Lines 173, 189, 205, 221, 237.
ProcessDetection_WriteType ==
  /\ spin_pc = "w_type"
  /\ artifact_to_report' = [artifact_to_report EXCEPT !.type = IfType[if_idx]]
  /\ hist' = [hist EXCEPT !.fired = hist.fired + 1]
  /\ spin_pc' = "w_x"
  /\ UNCHANGED <<have_an_artifact_to_report, comms_pc, detection_locals,
                 parsed, tick_history, last_qualifying, acked>>
  /\ UNCHANGED call_vars

\* Lines 174, 190, 206, 222, 238.
ProcessDetection_WriteX ==
  /\ spin_pc = "w_x"
  /\ artifact_to_report' = [artifact_to_report EXCEPT !.x = scoring_pose[1]]
  /\ spin_pc' = "w_y"
  /\ UNCHANGED <<have_an_artifact_to_report, comms_pc, detection_locals,
                 parsed, tick_history, last_qualifying, acked>>
  /\ UNCHANGED <<hist, call_vars>>

\* Lines 175, 191, 207, 223, 239.
ProcessDetection_WriteY ==
  /\ spin_pc = "w_y"
  /\ artifact_to_report' = [artifact_to_report EXCEPT !.y = scoring_pose[2]]
  /\ spin_pc' = "w_z"
  /\ UNCHANGED <<have_an_artifact_to_report, comms_pc, detection_locals,
                 parsed, tick_history, last_qualifying, acked>>
  /\ UNCHANGED <<hist, call_vars>>

\* Lines 176, 192, 208, 224, 240.
ProcessDetection_WriteZ ==
  /\ spin_pc = "w_z"
  /\ artifact_to_report' = [artifact_to_report EXCEPT !.z = scoring_pose[3]]
  /\ spin_pc' = "w_flag"
  /\ UNCHANGED <<have_an_artifact_to_report, comms_pc, detection_locals,
                 parsed, tick_history, last_qualifying, acked>>
  /\ UNCHANGED <<hist, call_vars>>

\* Lines 177, 193, 209, 225, 241, then the log and the end of the if body.
ProcessDetection_SetFlag ==
  /\ spin_pc = "w_flag"
  /\ have_an_artifact_to_report' = TRUE
  /\ acked' = FALSE
  /\ hist' = HistAfterBranch(if_idx, hist)
  /\ spin_pc' = AfterBranch(if_idx)
  /\ if_idx' = NextBranch(if_idx)
  /\ scoring_pose' = PoseAfterBranch(if_idx)
  /\ UNCHANGED <<artifact_to_report, comms_pc, boxes_left, Class, parsed,
                 tick_history, last_qualifying>>
  /\ UNCHANGED call_vars

----------------------------------------------------------------------------

Next ==
  \/ BaseStationCallback_Parse
  \/ BaseStationCallback_Clear
  \/ ReportArtifacts_Check
  \/ ReportArtifacts_Send
  \/ ProcessDetection_Begin
  \/ ProcessDetection_End
  \/ ProcessDetection_Box
  \/ ProcessDetection_BoxReadsPastEnd
  \/ ProcessDetection_BoxFaults
  \/ ProcessDetection_TransformThrows
  \/ ProcessDetection_IfTest
  \/ ProcessDetection_WriteType
  \/ ProcessDetection_WriteX
  \/ ProcessDetection_WriteY
  \/ ProcessDetection_WriteZ
  \/ ProcessDetection_SetFlag

Spec == Init /\ [][Next]_vars

TypeOK ==
  /\ have_an_artifact_to_report \in BOOLEAN
  /\ spin_pc \in {"idle", "report_send", "pd_loop", "if_test", "w_type",
                  "w_x", "w_y", "w_z", "w_flag", "crashed"}
  /\ comms_pc \in {"idle", "clear"}
  /\ boxes_left \in 0..MaxBoxes
  /\ Class \in Labels \cup {NoLabel}
  /\ if_idx \in 1..NumBranches
  /\ tick_sends \in 0..1
  /\ hist.box_kind \in {"none", "valid", "empty", "out_of_range"}
  /\ hist.fired \in 0..NumBranches
  /\ hist.sent_types \subseteq {IfType[i] : i \in 1..NumBranches}

----------------------------------------------------------------------------
\* A single call of CropPointCloud

\* CropPointCloud is entered with a cloud and a bounding box.
InitCrop ==
  /\ NodeInit
  /\ original_pc \in TaggedClouds
  /\ bb \in BoundingBoxes
  /\ modified_pc = NoCloud
  /\ centroid = <<0, 0, 0>>
  /\ fn_pc = "crop"

\* Lines 258-282 when every read of line 277 is inside the buffer.
CropPointCloud_Returns ==
  /\ fn_pc = "crop"
  /\ ReadsInsideBuffer(original_pc, bb)
  /\ modified_pc' = CropPointCloud(original_pc, bb, 0)
  /\ fn_pc' = "cropped"
  /\ UNCHANGED <<node_vars, original_pc, bb, centroid>>

\* Lines 258-282 when line 277 indexes past the end of the buffer and the
\* read returns whatever lies there.
CropPointCloud_ReadsPastEnd ==
  /\ fn_pc = "crop"
  /\ ~ReadsInsideBuffer(original_pc, bb)
  /\ \E g \in GarbageBytes :
       modified_pc' = CropPointCloud(original_pc, bb, g)
  /\ fn_pc' = "cropped"
  /\ UNCHANGED <<node_vars, original_pc, bb, centroid>>

\* Line 277 indexes past the end of the buffer and the access faults.
CropPointCloud_Faults ==
  /\ fn_pc = "crop"
  /\ ~ReadsInsideBuffer(original_pc, bb)
  /\ fn_pc' = "fault"
  /\ UNCHANGED <<node_vars, original_pc, bb, modified_pc, centroid>>

NextCrop ==
  \/ CropPointCloud_Returns
  \/ CropPointCloud_ReadsPastEnd
  \/ CropPointCloud_Faults

SpecCrop == InitCrop /\ [][NextCrop]_vars

----------------------------------------------------------------------------
\* A single call of GetCentroid

\* GetCentroid is entered with a cloud.
InitCentroid ==
  /\ NodeInit
  /\ original_pc \in PointClouds
  /\ bb = NoBoundingBox
  /\ modified_pc = NoCloud
  /\ centroid = <<0, 0, 0>>
  /\ fn_pc = "centroid"

\* Lines 285-322.
GetCentroid_Returns ==
  /\ fn_pc = "centroid"
  /\ DecodesInsideBuffer(original_pc)
  /\ centroid' = GetCentroid(original_pc, 0)
  /\ fn_pc' = "done"
  /\ UNCHANGED <<node_vars, original_pc, bb, modified_pc>>

NextCentroid == GetCentroid_Returns

SpecCentroid == InitCentroid /\ [][NextCentroid]_vars

----------------------------------------------------------------------------
\* The if-chain of ProcessDetection for one box of any label

\* The recognized box processed before the current one, if any.
PriorBoxes ==
  {NoBox} \cup [Class : RecognizedLabels,
                pose : {TransformPose(c) : c \in Centroids}]

\* Line 171 is reached for a box of any label whose crop and centroid read
\* inside the buffers and whose transform succeeded; an earlier recognized
\* box, if any, has left its artifact in the globals, and the flag is set
\* unless an acknowledgment has cleared it.
InitClassify ==
  /\ \E prior \in PriorBoxes, label \in Labels, b \in DetectionBounds :
       /\ PipelineDefined(b)
       /\ Class = label
       /\ scoring_pose = TransformPose(BoxCentroid(b, 0))
       /\ hist = [NoHistory EXCEPT !.box_kind = BoxKind(b)]
       /\ last_qualifying =
            IF label \in RecognizedLabels
            THEN [Class |-> label, pose |-> TransformPose(BoxCentroid(b, 0))]
            ELSE prior
       /\ artifact_to_report =
            [type |-> IF prior = NoBox THEN ZeroArtifact.type
                      ELSE IfType[CHOOSE i \in 1..NumBranches :
                                    IfLabel[i] = prior.Class],
             x |-> prior.pose[1], y |-> prior.pose[2], z |-> prior.pose[3]]
       /\ have_an_artifact_to_report \in
            (IF prior = NoBox THEN {FALSE} ELSE BOOLEAN)
  /\ spin_pc = "if_test"
  /\ comms_pc = "idle"
  /\ boxes_left \in 0..(MaxBoxes - 1)
  /\ if_idx = 1
  /\ parsed = TRUE
  /\ sent = NoMsg
  /\ tick_saw = FALSE
  /\ tick_sends = 0
  /\ acked = FALSE
  /\ CallOff

\* Lines 171-249: the chain of five ifs.
NextClassify ==
  \/ ProcessDetection_IfTest
  \/ ProcessDetection_WriteType
  \/ ProcessDetection_WriteX
  \/ ProcessDetection_WriteY
  \/ ProcessDetection_WriteZ
  \/ ProcessDetection_SetFlag

SpecClassify == InitClassify /\ [][NextClassify]_vars

----------------------------------------------------------------------------
\* Properties

\* The label-to-type table of the classifier.
LabelType(label) ==
  CASE label = "Backpack" -> "TYPE_BACKPACK"
    [] label = "Survivor" -> "TYPE_RESCUE_RANDY"
    [] label = "Cell Phone" -> "TYPE_PHONE"
    [] label = "Fire Extinguisher" -> "TYPE_EXTINGUISHER"
    [] label = "Drill" -> "TYPE_DRILL"
    [] OTHER -> "TYPE_0"

\* The artifact {type, transformed location} a recognized box stands for.
ArtifactOf(b) ==
  [type |-> LabelType(b.Class), x |-> b.pose[1], y |-> b.pose[2],
   z |-> b.pose[3]]

\* The spin thread is between two bounding boxes or between two callbacks.
AtBoxBoundary == spin_pc \in {"idle", "report_send", "pd_loop", "crashed"}

\* The spin thread is inside the if-chain of one bounding box.
InIfChain == spin_pc \in {"if_test", "w_type", "w_x", "w_y", "w_z", "w_flag"}

\* A step of the spin thread inside the if-chain of the current box.
IfChainStep == InIfChain /\ <<spin_pc, if_idx>>' # <<spin_pc, if_idx>>

\* C1: a timer tick that reads has_pending = false performs no send, and a
\* tick that reads has_pending = true performs exactly one send: while the
\* tick is between its check and its send it has read true and sent nothing,
\* and once it has returned its number of sends is 1 if it read true and 0
\* if it read false.
C1_OneSendPerTickIffPending ==
  /\ spin_pc = "report_send" => (tick_saw /\ tick_sends = 0)
  /\ spin_pc # "report_send" => tick_sends = (IF tick_saw THEN 1 ELSE 0)

\* A tick has sent once and the artifact is still pending: the next tick
\* sends again.
C1_Witness ==
  /\ spin_pc = "idle"
  /\ tick_saw
  /\ tick_sends = 1
  /\ have_an_artifact_to_report
  /\ ~sent.none

\* C2 (as claimed): a tick whose serialization failed performs no send, that
\* is, whenever the last tick has called SendTo its SerializeToString had
\* succeeded.
C2_NoSendWhenSerializeFails == tick_sends > 0 => sent.serialized

\* C3 (as claimed): when the score message fails to deserialize, the
\* assignment step of BaseStationCallback leaves has_pending and
\* pending_artifact as they were.
C3_MalformedAckChangesNothing ==
  [][(BaseStationCallback_Clear /\ ~parsed) => UNCHANGED reporting_state]_vars

\* C4 (as claimed): a failing bounding box aborts only itself, so the
\* detection callback never ends while boxes of the frame are still
\* unprocessed.
C4_FailureAbortsOnlyThatBox ==
  spin_pc \in {"idle", "crashed"} => boxes_left = 0

\* C5: last write wins.  Between boxes the stored artifact is the {type,
\* transformed location} of the most recent recognized box that was processed
\* (in particular whenever has_pending is true); the step that ends a
\* matching branch leaves has_pending true; and the artifact a tick puts in
\* its message is that most recent one.
C5_LastWriteWins ==
  /\ [](AtBoxBoundary => artifact_to_report = ArtifactOf(last_qualifying))
  /\ [][ProcessDetection_SetFlag => have_an_artifact_to_report']_vars
  /\ [][ReportArtifacts_Send =>
          sent'.artifact = ArtifactOf(last_qualifying)]_vars

\* A tick sent a Backpack, then a Drill box overwrote the stored artifact: the
\* pending artifact is the Drill, of another type and location.
C5_Witness ==
  /\ spin_pc = "idle"
  /\ have_an_artifact_to_report
  /\ last_qualifying = [Class |-> "Drill", pose |-> <<10, 10, 1>>]
  /\ artifact_to_report =
       [type |-> "TYPE_DRILL", x |-> 10, y |-> 10, z |-> 1]
  /\ sent.artifact = [type |-> "TYPE_BACKPACK", x |-> 7, y |-> 13, z |-> 2]
  /\ ~sent.none

\* C6: no step of ReportArtifacts changes has_pending or pending_artifact,
\* and has_pending goes from true to false only in the assignment step of
\* BaseStationCallback.
C6_TickLeavesStateUnchanged ==
  [][/\ (ReportArtifacts_Check \/ ReportArtifacts_Send)
          => UNCHANGED reporting_state
     /\ (have_an_artifact_to_report /\ ~have_an_artifact_to_report')
          => (comms_pc = "clear" /\ comms_pc' = "idle")]_vars

\* A tick has sent the pending artifact and returned; the artifact is still
\* pending and unchanged, with no acknowledgment in progress.
C6_Witness ==
  /\ spin_pc = "idle"
  /\ comms_pc = "idle"
  /\ tick_sends = 1
  /\ have_an_artifact_to_report
  /\ sent.artifact = artifact_to_report
  /\ ~acked

C8_AckIdempotent ==
  /\ [][(BaseStationCallback_Clear /\ ~have_an_artifact_to_report)
          => UNCHANGED reporting_state]_vars
  /\ [](\A a, b \in BOOLEAN :
          AckFlag(b, AckFlag(a, have_an_artifact_to_report))
            = AckFlag(a, have_an_artifact_to_report))

\* A well-formed acknowledgment cleared the flag and a further (malformed)
\* message was then handled with the flag already false.
C8_Witness ==
  /\ acked
  /\ ~parsed
  /\ comms_pc = "idle"
  /\ ~have_an_artifact_to_report
  /\ last_qualifying # NoBox

\* C9: while a box whose label is not one of the recognized labels is being
\* classified, no branch of the chain is entered and no step of the spin
\* thread changes has_pending or pending_artifact.
C9_UnrecognizedLabelNoChange ==
  /\ [](Class \notin RecognizedLabels =>
          spin_pc \notin {"w_type", "w_x", "w_y", "w_z", "w_flag"})
  /\ [][(IfChainStep /\ Class \notin RecognizedLabels)
          => UNCHANGED reporting_state]_vars

\* A box labelled "Helmet" has been processed after a Drill was stored; the
\* Drill is still the pending artifact.
C9_Witness ==
  /\ spin_pc = "pd_loop"
  /\ Class = "Helmet"
  /\ have_an_artifact_to_report
  /\ artifact_to_report.type = "TYPE_DRILL"
  /\ last_qualifying.Class = "Drill"

\* The spin thread is inside a sequence of reads (after the check of the
\* flag, before the copy of the artifact) or writes of ReportingState.
SpinAccessing ==
  spin_pc \in {"report_send", "w_type", "w_x", "w_y", "w_z", "w_flag"}

\* The comms thread is about to write have_an_artifact_to_report.
CommsAccessing == comms_pc = "clear"

\* Every artifact some single detection can write.
DetectionArtifacts ==
  {[type |-> IfType[i], x |-> TransformPose(c)[1], y |-> TransformPose(c)[2],
    z |-> TransformPose(c)[3]] : i \in 1..NumBranches, c \in Centroids}

\* C10 (as claimed): accesses of the two execution contexts to ReportingState
\* are mutually exclusive, and every artifact sent has a type and a location
\* written by one and the same detection.
C10_MutualExclusionNoTornRead ==
  /\ ~(SpinAccessing /\ CommsAccessing)
  /\ sent.none \/ sent.artifact \in DetectionArtifacts

\* C11: for every cloud and every bounding box inside it, CropPointCloud
\* returns (without fault) a cloud of width xmax-xmin+1 and height
\* ymax-ymin+1 whose buffer has width*height*point_step bytes, that is
\* exactly width*height points, and whose k-th point in row-major order is
\* byte for byte the original point at column xmin + (k mod width), row
\* ymin + (k div width).
C11_CropExactRowMajor ==
  (fn_pc # "crop" /\ InRange(original_pc, bb)) =>
    /\ fn_pc = "cropped"
    /\ modified_pc.width = bb.xmax - bb.xmin + 1
    /\ modified_pc.height = bb.ymax - bb.ymin + 1
    /\ modified_pc.point_step = original_pc.point_step
    /\ Len(modified_pc.data)
         = modified_pc.width * modified_pc.height * modified_pc.point_step
    /\ \A k \in 0..(modified_pc.width * modified_pc.height - 1) :
         \A j \in 0..(original_pc.point_step - 1) :
           modified_pc.data[(k * original_pc.point_step) + j + 1]
             = original_pc.data[
                 ((bb.ymin + (k \div modified_pc.width)) * original_pc.row_step)
                 + ((bb.xmin + (k % modified_pc.width))
                      * original_pc.point_step)
                 + j + 1]

\* Column 1 of a 2 x 2 cloud with two bytes per point and padded rows has
\* been cropped: two points, taken from two different rows.
C11_Witness ==
  /\ fn_pc = "cropped"
  /\ InRange(original_pc, bb)
  /\ original_pc.width = 2 /\ original_pc.height = 2
  /\ original_pc.point_step = 2
  /\ original_pc.row_step > original_pc.width * original_pc.point_step
  /\ bb = [xmin |-> 1, xmax |-> 1, ymin |-> 0, ymax |-> 1]
  /\ Len(modified_pc.data) = 4

\* C12 (as claimed): a bounding box whose bounds lie outside the point cloud
\* ends in a signaled error, so while such a box is the current one the spin
\* thread never is inside a branch that sets the artifact.
C12_OutOfRangeBoxSetsNoArtifact ==
  hist.box_kind = "out_of_range" =>
    spin_pc \notin {"w_type", "w_x", "w_y", "w_z", "w_flag"}

\* C13 (as claimed): while a recognized box whose cropped region has no point
\* of finite coordinates is being classified, no step of the spin thread
\* changes has_pending or pending_artifact.
C13_EmptyCentroidDropsDetection ==
  [][(IfChainStep /\ hist.box_kind = "empty" /\ Class \in RecognizedLabels)
       => UNCHANGED reporting_state]_vars

\* The points of a cloud, and those with three finite coordinates.
PointsOf(pc) == [k \in 1..(pc.width * pc.height) |-> DecodePoint(pc, k - 1, 0)]

AllFinite(p) == \A i \in 1..3 : p[i] # Inf /\ p[i] # NaN

FiniteIndices(pc) == {k \in DOMAIN PointsOf(pc) : AllFinite(PointsOf(pc)[k])}

RECURSIVE SumOver(_, _, _)
\* The sum of coordinate i of the points of pc with index in S.
SumOver(pc, S, i) ==
  IF S = {} THEN 0
  ELSE LET k == CHOOSE k \in S : TRUE
       IN  PointsOf(pc)[k][i] + SumOver(pc, S \ {k}, i)

\* C14 (as claimed): GetCentroid returns the arithmetic mean of exactly the
\* points whose x, y and z are all finite (neither infinite nor NaN): when
\* the cloud has such points, each returned coordinate times their number is
\* the sum of that coordinate over them.
C14_MeanOfFinitePoints ==
  (fn_pc = "done" /\ FiniteIndices(original_pc) # {}) =>
    \A i \in 1..3 :
      /\ centroid[i] # NaN
      /\ centroid[i] * Cardinality(FiniteIndices(original_pc))
           = SumOver(original_pc, FiniteIndices(original_pc), i)

\* C15: classification is an exact, case-sensitive match over the fixed
\* table LabelType.  For every box at most one branch of the chain is
\* entered; a branch is entered only when its label is exactly the box's
\* label and the type it stores is the table's value for that label; once
\* stored, the type is the table's value for the box's label; a label
\* outside the table enters no branch; and after the chain the stored type
\* is the table's value for the most recent recognized label.
C15_ExactTableAtMostOneBranch ==
  /\ hist.fired <= 1
  /\ spin_pc \in {"w_type", "w_x", "w_y", "w_z", "w_flag"} =>
       /\ Class = IfLabel[if_idx]
       /\ IfType[if_idx] = LabelType(Class)
  /\ spin_pc \in {"w_x", "w_y", "w_z", "w_flag"} =>
       /\ hist.fired = 1
       /\ artifact_to_report.type = LabelType(Class)
  /\ LabelType(Class) = "TYPE_0" =>
       /\ hist.fired = 0
       /\ spin_pc \in {"if_test", "pd_loop"}
  /\ spin_pc = "pd_loop" =>
       /\ artifact_to_report.type = LabelType(last_qualifying.Class)
       /\ Class \in RecognizedLabels =>
            (last_qualifying.Class = Class /\ have_an_artifact_to_report)

\* A box labelled "Cell Phone" has entered the third branch, and only that
\* one, and TYPE_PHONE is stored over the type of an earlier, still pending
\* artifact.
C15_Witness ==
  /\ spin_pc = "w_flag"
  /\ Class = "Cell Phone"
  /\ if_idx = 3
  /\ hist.fired = 1
  /\ artifact_to_report.type = "TYPE_PHONE"
  /\ have_an_artifact_to_report

\* C16 (as claimed): an acknowledgment never discards an untransmitted
\* artifact.  Whenever the assignment step of BaseStationCallback, handling
\* a well-formed score message that arrives after a report has gone out and
\* while no detection is in the middle of its writes, changes has_pending
\* from true to false, an artifact of the pending artifact's type has been
\* handed to SendTo by a timer tick (as it must have been if the pending
\* artifact itself has been sent).
C16_AckNeverDiscardsUnsent ==
  [][(/\ BaseStationCallback_Clear
      /\ parsed
      /\ ~sent.none /\ sent.serialized
      /\ AtBoxBoundary
      /\ have_an_artifact_to_report /\ ~have_an_artifact_to_report')
       => artifact_to_report.type \in hist.sent_types]_vars

\* The artifact types of the table.
ArtifactTypes == {LabelType(l) : l \in RecognizedLabels}

\* C17: has_pending is false at startup and rises only in the last statement
\* of a branch entered for a recognized label; whenever has_pending is true
\* a recognized box has been processed and pending_artifact has the type of
\* a detection; nothing is sent before the first recognized box; and every
\* artifact handed to SendTo has one of the five types of the table, never
\* the type of the static-initialised artifact.
C17_PendingWrittenByDetection ==
  /\ ~have_an_artifact_to_report
  /\ [][(~have_an_artifact_to_report /\ have_an_artifact_to_report')
         => (ProcessDetection_SetFlag /\ Class \in RecognizedLabels)]_vars
  /\ [](have_an_artifact_to_report =>
          /\ last_qualifying # NoBox
          /\ artifact_to_report.type \in ArtifactTypes)
  /\ [](last_qualifying = NoBox => sent.none)
  /\ [](~sent.none =>
          /\ sent.artifact.type \in ArtifactTypes
          /\ sent.artifact.type # ZeroArtifact.type)

\* After a tick that sent nothing, a Drill box was processed and the next
\* tick sent {TYPE_DRILL, (10, 10, 1)}, which is still pending.
C17_Witness ==
  /\ spin_pc = "idle"
  /\ have_an_artifact_to_report
  /\ tick_sends = 1
  /\ hist.sent_types = {"TYPE_DRILL"}
  /\ sent.artifact = [type |-> "TYPE_DRILL", x |-> 10, y |-> 10, z |-> 1]
  /\ sent.artifact = artifact_to_report

====
